---- MODULE Spec2Model ----
(***************************************************************************)
(* Model of the jira command line client (src/unnamed/part_002, the        *)
(* latest revision of src/index.js): the command handlers search,          *)
(* printIssue, printComments, closeIssues, generateReleaseNotes and        *)
(* setVersion, the tracker calls they make and the lines they print.       *)
(*                                                                         *)
(* One behaviour is one run of the process: Init picks the command and its *)
(* argument, every tracker call is an await whose response (a value or a   *)
(* rejection) is chosen when it arrives.  An action is everything the      *)
(* event loop runs between two awaits.                                     *)
(***************************************************************************)
EXTENDS Integers, Sequences, FiniteSets, TLC

(* ------------------------------ bounds -------------------------------- *)
MaxIssues == 3          \* longest issue list the tracker returns
MaxTransitions == 2     \* longest transition list the tracker returns
MaxComments == 2        \* longest comment thread the tracker returns
MaxSprints == 2         \* most active sprints the tracker returns
MaxVersions == 2        \* longest version list the tracker returns

(* ------------------------------ values -------------------------------- *)
NoKey == 0              \* issue.key is undefined
NoId == 0               \* transition.id is undefined (falsy)
NoStatus == "<no status>"        \* issue.fields.status is undefined
NoIssueType == "<no issuetype>"  \* issue.fields.issuetype is undefined
NullName == "<null>"             \* issue.fields.issuetype.name is null

Commands == {"search", "issue", "comments", "close", "notes", "setVersion"}

\* the registrations with `notes` given the handler of `close`
actionNotesAsClose(c) ==
  CASE c = "issue" -> "printIssue"
    [] c = "comments" -> "printComments"
    [] c = "close" -> "closeIssues"
    [] c = "notes" -> "closeIssues"
    [] c = "search" -> "search"
    [] c = "setVersion" -> "setVersion"

\* program.command(c).action(handler): the handler that runs for command c
action(c) ==
  CASE c = "issue" -> "printIssue"
    [] c = "comments" -> "printComments"
    [] c = "close" -> "closeIssues"
    [] c = "notes" -> "generateReleaseNotes"
    [] c = "search" -> "search"
    [] c = "setVersion" -> "setVersion"

\* text of the lines the handlers print (colour codes left out)
AlreadyClosed == "Issue already Closed"
NotResolved == "Issue not Resolved yet, can't be closed"
Closed == "Closed"
NotAvailable == "Close Transition not available, reason unknown..."
UndefinedText == "undefined"     \* console.log(undefined)
Summary == "summary"             \* key + ' - ' + fields.summary
ErrorText == "Sorry, something went wrong while retrieving Jira issues"

Line(k, t) == [key |-> k, text |-> t]

(* --------------------------- tracker data ----------------------------- *)
\* An issue record as the handlers read it: rec = the array entry is an
\* object, fields = it has a fields object.
Issue(r, k, f, s, t, n) ==
  [rec |-> r, key |-> k, fields |-> f, status |-> s, type |-> t, fixVersions |-> n]

Statuses == {"Closed", "Resolved", "Open"}
Types == {"New Feature", "Improvement", "Bug", "Weird"}

\* the records a fixVersion query can return at position k of its result:
\* a well-formed issue in each status, and the malformed ones closeIssue
\* guards against (no entry, no fields, no status)
CloseIssuePool(k) ==
  {Issue(TRUE, k, TRUE, s, "Bug", 1) : s \in Statuses \cup {NoStatus}}
    \cup {Issue(FALSE, NoKey, FALSE, NoStatus, NoIssueType, 0),
          Issue(TRUE, k, FALSE, NoStatus, NoIssueType, 0)}

Transition(n, i) == [name |-> n, id |-> i]
TransitionPool == {Transition("Close Issue", 7), Transition("Close Issue", NoId),
                   Transition("Reopen Issue", 3)}

SeqsUpTo(S, n) == UNION {[1..m -> S] : m \in 0..n}

\* the lists of at most n issues whose entry at position k comes from
\* pool[k]
IssueLists(pool, n) ==
  UNION {{s \in [1..m -> UNION {pool[k] : k \in 1..m}] :
            \A k \in 1..m : s[k] \in pool[k]} : m \in 0..n}

\* a response of jira.listTransitions: a rejection, null, or an object with
\* a transitions array
ListResponses ==
  {[kind |-> "fail", transitions |-> <<>>], [kind |-> "null", transitions |-> <<>>]}
    \cup {[kind |-> "list", transitions |-> ts] : ts \in SeqsUpTo(TransitionPool, MaxTransitions)}
NoResponse == [kind |-> "none", transitions |-> <<>>]

VARIABLES
  cmd,        \* the sub-command of this run
  arg,        \* its argument (version, query or issue number), "" if empty
  pc,         \* where the command handler is
  issues,     \* closeIssues / generateReleaseNotes: the local `issues`
  chains,     \* closeIssues: the closeIssue promise of every issue
  completed,  \* closeIssues: chain indices in the order they settled
  out,        \* the lines printed so far
  returned,   \* what the handler's promise was fulfilled with
  notes,      \* generateReleaseNotes: the object it returned
  searchCalls, \* number of jira.searchJira calls started
  findCalls,  \* number of jira.findIssue calls started
  sprintId,   \* setVersion: its optional second argument, 0 if absent
  sprints,    \* setVersion: sprints.values, the active sprints fetched
  versions,   \* setVersion: the local `versions`, the project's versions
  results,    \* search: what jira.searchJira answered
  activeSprint, \* setVersion: id of the sprint it works on, 0 before
  versionObj, \* setVersion: the version it resolved
  idx,        \* setVersion: the loop variable i (1-based)
  updatedCount, \* setVersion: the counter of the same name
  issueCount, \* setVersion: the counter of the same name
  updates,    \* setVersion: the jira.updateIssue calls started, in order
  failed,     \* some tracker call of this run has rejected
  calls       \* the tracker calls the handler itself started, in order (the
              \* calls of the closeIssue chains are counted in chains)

closeVars == <<chains, completed>>
svVars == <<sprints, versions, activeSprint, versionObj, idx, updatedCount, issueCount,
            updates>>
vars == <<cmd, arg, pc, issues, chains, completed, out, returned, notes, searchCalls,
          findCalls, sprintId, activeSprint, versionObj, idx, updatedCount, issueCount,
          updates, failed, calls, sprints, versions, results>>

\* one tracker call: the jira-client method and the argument that matters
Call(n, a) == [name |-> n, arg |-> a]

(* ------------------------------ search -------------------------------- *)
Min(S) == CHOOSE x \in S : \A y \in S : x <= y

\* handleError: one message line
handleError == <<Line(NoKey, ErrorText)>>

\* positions whose console.log(i.key + ' - ' + i.fields.summary) throws
Unprintable(iss) == {k \in 1..Len(iss) : ~iss[k].rec \/ ~iss[k].fields}

\* search without its `return issues` (as in an earlier revision of the
\* file): the issues are printed, undefined is returned
searchNoReturn(resp) ==
  IF resp.kind = "fail" THEN [ok |-> FALSE, issues |-> <<>>, printed |-> handleError]
  ELSE LET iss == IF resp.kind = "list" THEN resp.issues ELSE <<>>
           bad == Unprintable(iss)
       IN IF bad = {}
            THEN [ok |-> FALSE, issues |-> <<>>,
                  printed |-> [k \in 1..Len(iss) |-> Line(iss[k].key, Summary)]]
            ELSE [ok |-> FALSE, issues |-> <<>>,
                  printed |-> [k \in 1..(Min(bad) - 1) |-> Line(iss[k].key, Summary)]
                                \o handleError]

\* search(query) once jira.searchJira has answered: resp.kind is "fail" (the
\* call rejected), "empty" (no results.issues) or "list".  ok = FALSE is the
\* undefined the catch branch falls through to.
search(resp) ==
  IF resp.kind = "fail" THEN [ok |-> FALSE, issues |-> <<>>, printed |-> handleError]
  ELSE LET iss == IF resp.kind = "list" THEN resp.issues ELSE <<>>
           bad == Unprintable(iss)
       IN IF bad = {}
            THEN [ok |-> TRUE, issues |-> iss,
                  printed |-> [k \in 1..Len(iss) |-> Line(iss[k].key, Summary)]]
            ELSE [ok |-> FALSE, issues |-> <<>>,
                  printed |-> [k \in 1..(Min(bad) - 1) |-> Line(iss[k].key, Summary)]
                                \o handleError]

\* a response of jira.searchJira: a rejection, a result without issues, or
\* a result with a list of issues from pool
SearchResponses(pool) ==
  {[kind |-> "fail", issues |-> <<>>], [kind |-> "empty", issues |-> <<>>]}
    \cup {[kind |-> "list", issues |-> iss] : iss \in IssueLists(pool, MaxIssues)}

(* ---------------------------- closeIssue ------------------------------ *)
Chain(s, r, t, a, lc, ac) ==
  [st |-> s, res |-> r, transitions |-> t, applyId |-> a, listCalls |-> lc, applyCalls |-> ac]

\* closeIssue without its `status === 'Closed'` branch
closeIssueNoClosedBranch(issue) ==
  IF ~issue.rec \/ issue.key = NoKey \/ ~issue.fields \/ issue.status = NoStatus
    THEN Chain("fulfilled", Line(NoKey, UndefinedText), NoResponse, NoId, 0, 0)
  ELSE IF issue.status # "Resolved"
    THEN Chain("fulfilled", Line(issue.key, NotResolved), NoResponse, NoId, 0, 0)
  ELSE Chain("listing", Line(NoKey, UndefinedText), NoResponse, NoId, 1, 0)

\* closeIssue without its `status !== 'Resolved'` branch
closeIssueNoResolvedBranch(issue) ==
  IF ~issue.rec \/ issue.key = NoKey \/ ~issue.fields \/ issue.status = NoStatus
    THEN Chain("fulfilled", Line(NoKey, UndefinedText), NoResponse, NoId, 0, 0)
  ELSE IF issue.status = "Closed"
    THEN Chain("fulfilled", Line(issue.key, AlreadyClosed), NoResponse, NoId, 0, 0)
  ELSE Chain("listing", Line(NoKey, UndefinedText), NoResponse, NoId, 1, 0)

\* closeIssue(issue) up to its first await: the promise is fulfilled at once
\* (undefined, "already Closed", "not Resolved yet") or waits for
\* jira.listTransitions(key)
closeIssue(issue) ==
  IF ~issue.rec \/ issue.key = NoKey \/ ~issue.fields \/ issue.status = NoStatus
    THEN Chain("fulfilled", Line(NoKey, UndefinedText), NoResponse, NoId, 0, 0)
  ELSE IF issue.status = "Closed"
    THEN Chain("fulfilled", Line(issue.key, AlreadyClosed), NoResponse, NoId, 0, 0)
  ELSE IF issue.status # "Resolved"
    THEN Chain("fulfilled", Line(issue.key, NotResolved), NoResponse, NoId, 0, 0)
  ELSE Chain("listing", Line(NoKey, UndefinedText), NoResponse, NoId, 1, 0)

\* a find that keeps the last match instead of the first
closeTransitionLast(ts) ==
  LET S == {j \in 1..Len(ts) : ts[j].name = "Close Issue"}
  IN IF S = {} THEN 0 ELSE CHOOSE x \in S : \A y \in S : y <= x

\* transitions.transitions.find(t => t.name === 'Close Issue'): the first
\* match, 0 if there is none
closeTransition(ts) ==
  LET S == {j \in 1..Len(ts) : ts[j].name = "Close Issue"}
  IN IF S = {} THEN 0 ELSE Min(S)

\* closeIssueListed with `if (closeTransition)` for
\* `if (closeTransition && closeTransition.id)`
closeIssueListedNoIdCheck(issue, ch, resp) ==
  IF resp.kind = "fail"
    THEN [ch EXCEPT !.st = "rejected", !.transitions = resp]
  ELSE LET ts == resp.transitions
           j == IF resp.kind = "null" THEN 0 ELSE closeTransition(ts)
       IN IF j # 0
            THEN [ch EXCEPT !.st = "applying", !.transitions = resp,
                            !.applyId = ts[j].id, !.applyCalls = @ + 1]
            ELSE [ch EXCEPT !.st = "fulfilled", !.transitions = resp,
                            !.res = Line(issue.key, NotAvailable)]

\* closeIssue from the answer of listTransitions to its next await or return
closeIssueListed(issue, ch, resp) ==
  IF resp.kind = "fail"
    THEN [ch EXCEPT !.st = "rejected", !.transitions = resp]
  ELSE LET ts == resp.transitions
           j == IF resp.kind = "null" THEN 0 ELSE closeTransition(ts)
       IN IF j # 0 /\ ts[j].id # NoId
            THEN [ch EXCEPT !.st = "applying", !.transitions = resp,
                            !.applyId = ts[j].id, !.applyCalls = @ + 1]
            ELSE [ch EXCEPT !.st = "fulfilled", !.transitions = resp,
                            !.res = Line(issue.key, NotAvailable)]

\* closeIssue from the answer of jira.transitionIssue to its return
closeIssueApplied(issue, ch, ok) ==
  IF ok THEN [ch EXCEPT !.st = "fulfilled", !.res = Line(issue.key, Closed)]
  ELSE [ch EXCEPT !.st = "rejected"]

(* ---------------------------- closeIssues ----------------------------- *)
Settled(ch) == ch.st \in {"fulfilled", "rejected"}

\* the results printed in the order the chains settled
printResponsesAsSettled(chs, order) == [k \in 1..Len(chs) |-> chs[order[k]].res]

\* what responses.forEach(res => console.log(res)) prints
printResponses(chs, order) == [k \in 1..Len(chs) |-> chs[k].res]

\* await Promise.all(...) as seen after the chains changed to chs: rejected
\* by the first rejection, fulfilled once every chain is, else still waiting
closeIssuesJoin(chs, order) ==
  IF \E k \in 1..Len(chs) : chs[k].st = "rejected"
    THEN [pc |-> "rejected", printed |-> <<>>, returned |-> "none"]
  ELSE IF \A k \in 1..Len(chs) : chs[k].st = "fulfilled"
    THEN [pc |-> "done", printed |-> printResponses(chs, order), returned |-> "undefined"]
  ELSE [pc |-> "joining", printed |-> <<>>, returned |-> "none"]

\* indices of chs that settled in this step, in index order
RECURSIVE NewlySettled(_, _)
NewlySettled(chs, k) ==
  IF k > Len(chs) THEN <<>>
  ELSE (IF Settled(chs[k]) THEN <<k>> ELSE <<>>) \o NewlySettled(chs, k + 1)

\* closeIssues(version) up to its first await: getIssuesByFixVersion
\* returns [] for an empty version, else starts the search
closeIssuesCall ==
  /\ action(cmd) = "closeIssues" /\ pc = "start"
  /\ IF arg = ""
       THEN /\ pc' = "done"
            /\ returned' = "undefined"
            /\ UNCHANGED <<searchCalls, calls>>
       ELSE /\ pc' = "searching"
            /\ searchCalls' = searchCalls + 1
            /\ calls' = Append(calls, Call("searchJira", arg))
            /\ UNCHANGED returned
  /\ UNCHANGED <<cmd, arg, issues, chains, completed, out, notes, findCalls, results, sprintId, svVars, failed>>

\* the search answers: issues.map(closeIssue) starts every chain, then the
\* handler waits in Promise.all (or throws on issues.map of undefined)
closeIssuesSearched ==
  /\ action(cmd) = "closeIssues" /\ pc = "searching"
  /\ \E resp \in SearchResponses([k \in 1..MaxIssues |-> CloseIssuePool(k)]) :
       LET r == search(resp)
           f == failed \/ resp.kind = "fail"
           chs == [k \in 1..Len(r.issues) |-> closeIssue(r.issues[k])]
           order == NewlySettled(chs, 1)
           j == closeIssuesJoin(chs, order)
       IN /\ results' = resp
          /\ IF ~r.ok
               THEN /\ pc' = "rejected"
                    /\ failed' = f
                    /\ out' = out \o r.printed
                    /\ UNCHANGED <<issues, chains, completed, returned>>
               ELSE /\ issues' = r.issues
                    /\ failed' = f
                    /\ chains' = chs
                    /\ completed' = order
                    /\ pc' = j.pc
                    /\ returned' = j.returned
                    /\ out' = out \o r.printed \o j.printed
  /\ UNCHANGED <<cmd, arg, searchCalls, notes, findCalls, sprintId, svVars, calls>>

\* what the handler does when chain k changed to ch: nothing unless it is
\* still waiting in Promise.all
ChainStep(k, ch) ==
  LET chs == [chains EXCEPT ![k] = ch]
      order == IF Settled(ch) THEN Append(completed, k) ELSE completed
      j == closeIssuesJoin(chs, order)
  IN /\ chains' = chs
     /\ completed' = order
     /\ IF pc = "joining"
          THEN pc' = j.pc /\ out' = out \o j.printed /\ returned' = j.returned
          ELSE UNCHANGED <<pc, out, returned>>
     /\ failed' = (failed \/ ch.st = "rejected")
     /\ UNCHANGED <<cmd, arg, issues, searchCalls, notes, findCalls, results, sprintId, svVars, calls>>

\* jira.listTransitions(key) of chain k answers
listTransitionsReturn(k) ==
  /\ action(cmd) = "closeIssues" /\ k \in 1..Len(chains) /\ chains[k].st = "listing"
  /\ \E resp \in ListResponses : ChainStep(k, closeIssueListed(issues[k], chains[k], resp))

\* jira.transitionIssue(key, ...) of chain k answers
transitionIssueReturn(k) ==
  /\ action(cmd) = "closeIssues" /\ k \in 1..Len(chains) /\ chains[k].st = "applying"
  /\ \E ok \in BOOLEAN : ChainStep(k, closeIssueApplied(issues[k], chains[k], ok))

(* ------------------------- the search command ------------------------- *)
\* search(query) up to its first await: [] for an empty query
searchCall ==
  /\ action(cmd) = "search" /\ pc = "start"
  /\ IF arg = ""
       THEN /\ pc' = "done"
            /\ returned' = "array"
            /\ UNCHANGED <<searchCalls, calls>>
       ELSE /\ pc' = "searching"
            /\ searchCalls' = searchCalls + 1
            /\ calls' = Append(calls, Call("searchJira", arg))
            /\ UNCHANGED returned
  /\ UNCHANGED <<cmd, arg, issues, closeVars, out, notes, findCalls, results, sprintId, svVars, failed>>

\* jira.searchJira answers: print the issues and return them, or print the
\* error and return undefined
searchReturn ==
  /\ action(cmd) = "search" /\ pc = "searching"
  /\ \E resp \in SearchResponses([k \in 1..MaxIssues |-> CloseIssuePool(k)]) :
       LET r == search(resp)
       IN /\ out' = out \o r.printed
          /\ results' = resp
          /\ issues' = r.issues
          /\ failed' = (failed \/ resp.kind = "fail")
          /\ returned' = IF r.ok THEN "array" ELSE "undefined"
  /\ pc' = "done"
  /\ UNCHANGED <<cmd, arg, closeVars, notes, searchCalls, findCalls, sprintId, svVars, calls>>

(* ----------------------- generateReleaseNotes ------------------------- *)
\* the records a fixVersion query can return at position k: an issue of
\* every type, one whose type name is null, one without issuetype, one
\* that is Resolved (a release may hold issues not yet closed), and one
\* without fields
NotesIssuePool(k) ==
  {Issue(TRUE, k, TRUE, "Closed", t, 1) : t \in Types \cup {NullName, NoIssueType}}
    \cup {Issue(TRUE, k, TRUE, "Resolved", "Bug", 1)}
    \cup {Issue(TRUE, k, FALSE, NoStatus, NoIssueType, 0)}

NoNotes ==
  [version |-> "", newFeatures |-> <<>>, improved |-> <<>>, fixes |-> <<>>, other |-> <<>>]

\* the data object of one issue (description, a field copied unread, left out)
Data(i) == [id |-> i.key, type |-> i.type]

\* categorize with a plain `if` for the last `else`: a Bug is pushed twice
categorizeFallThrough(n, i) ==
  LET data == Data(i)
  IN IF data.type = "New Feature" THEN [n EXCEPT !.newFeatures = Append(@, data)]
     ELSE IF data.type = "Improvement" THEN [n EXCEPT !.improved = Append(@, data)]
     ELSE IF data.type = "Bug"
       THEN [n EXCEPT !.fixes = Append(@, data), !.other = Append(@, data)]
     ELSE [n EXCEPT !.other = Append(@, data)]

\* categorize with unshift for push: the newest record comes first
categorizeUnshift(n, i) ==
  LET data == Data(i)
  IN IF data.type = "New Feature" THEN [n EXCEPT !.newFeatures = <<data>> \o @]
     ELSE IF data.type = "Improvement" THEN [n EXCEPT !.improved = <<data>> \o @]
     ELSE IF data.type = "Bug" THEN [n EXCEPT !.fixes = <<data>> \o @]
     ELSE [n EXCEPT !.other = <<data>> \o @]

\* the body of issues.forEach: push the issue's data to its category
categorize(n, i) ==
  LET data == Data(i)
  IN IF data.type = "New Feature" THEN [n EXCEPT !.newFeatures = Append(@, data)]
     ELSE IF data.type = "Improvement" THEN [n EXCEPT !.improved = Append(@, data)]
     ELSE IF data.type = "Bug" THEN [n EXCEPT !.fixes = Append(@, data)]
     ELSE [n EXCEPT !.other = Append(@, data)]

\* issues.forEach(...) from position k on
RECURSIVE forEachIssue(_, _, _)
forEachIssue(n, iss, k) ==
  IF k > Len(iss) THEN n ELSE forEachIssue(categorize(n, iss[k]), iss, k + 1)

\* i.fields.issuetype.name throws for these positions
Untyped(iss) == {k \in 1..Len(iss) : iss[k].type = NoIssueType}

\* generateReleaseNotes(version) up to its first await
generateReleaseNotesCall ==
  /\ action(cmd) = "generateReleaseNotes" /\ pc = "start"
  /\ IF arg = ""
       THEN /\ pc' = "done"
            /\ returned' = "null"
            /\ UNCHANGED <<searchCalls, calls>>
       ELSE /\ pc' = "searching"
            /\ searchCalls' = searchCalls + 1
            /\ calls' = Append(calls, Call("searchJira", arg))
            /\ UNCHANGED returned
  /\ UNCHANGED <<cmd, arg, issues, closeVars, out, notes, findCalls, results, sprintId, svVars, failed>>

\* generateReleaseNotesSearched with `if (!issues)` for
\* `if (!issues || !issues.length)`: an empty result gets a notes object
generateReleaseNotesSearchedNoLengthCheck ==
  /\ action(cmd) = "generateReleaseNotes" /\ pc = "searching"
  /\ \E resp \in SearchResponses([k \in 1..MaxIssues |-> NotesIssuePool(k)]) :
       LET r == search(resp)
       IN /\ out' = out \o r.printed
          /\ results' = resp
          /\ issues' = r.issues
          /\ failed' = (failed \/ resp.kind = "fail")
          /\ IF ~r.ok
               THEN pc' = "done" /\ returned' = "null" /\ UNCHANGED notes
             ELSE IF Untyped(r.issues) # {}
               THEN pc' = "rejected" /\ UNCHANGED <<returned, notes>>
             ELSE /\ pc' = "done"
                  /\ returned' = "object"
                  /\ notes' = forEachIssue([NoNotes EXCEPT !.version = arg], r.issues, 1)
  /\ UNCHANGED <<cmd, arg, closeVars, searchCalls, findCalls, sprintId, svVars, calls>>

\* the search answers: null for no issues, else the four categories; the
\* TypeError of a missing issuetype leaves the handler rejected
generateReleaseNotesSearched ==
  /\ action(cmd) = "generateReleaseNotes" /\ pc = "searching"
  /\ \E resp \in SearchResponses([k \in 1..MaxIssues |-> NotesIssuePool(k)]) :
       LET r == search(resp)
       IN /\ out' = out \o r.printed
          /\ results' = resp
          /\ issues' = r.issues
          /\ failed' = (failed \/ resp.kind = "fail")
          /\ IF ~r.ok \/ Len(r.issues) = 0
               THEN pc' = "done" /\ returned' = "null" /\ UNCHANGED notes
             ELSE IF Untyped(r.issues) # {}
               THEN pc' = "rejected" /\ UNCHANGED <<returned, notes>>
             ELSE /\ pc' = "done"
                  /\ returned' = "object"
                  /\ notes' = forEachIssue([NoNotes EXCEPT !.version = arg], r.issues, 1)
  /\ UNCHANGED <<cmd, arg, closeVars, searchCalls, findCalls, sprintId, svVars, calls>>

(* ------------------- printIssue and printComments --------------------- *)
Comment(a, b) == [author |-> a, body |-> b]
CommentPool == {Comment("ann", "text")}

\* a response of jira.findIssue: a rejection or the issue `arg` with its
\* comment thread
FindResponses ==
  {[kind |-> "fail", comments |-> <<>>]}
    \cup {[kind |-> "issue", comments |-> cs] : cs \in SeqsUpTo(CommentPool, MaxComments)}

IssueKey == 1   \* the key of the issue that `issue` and `comments` fetch

\* the trailing line of printIssue: the count, then Comment or Comments
commentCount(n) == Line(n, IF n = 1 THEN "Comment" ELSE "Comments")

\* the lines printIssue prints for a fetched issue, in order
issueLines(resp) ==
  <<Line(IssueKey, Summary), Line(IssueKey, "Type"), Line(IssueKey, "Assignee"),
    Line(IssueKey, "Status"), Line(IssueKey, "Created"), Line(IssueKey, "Fix Version"),
    Line(IssueKey, "Project Number"), Line(IssueKey, "Labels"),
    Line(IssueKey, "Description"), commentCount(Len(resp.comments))>>

\* the three lines printComments prints for every comment, in order
RECURSIVE commentLines(_, _)
commentLines(cs, k) ==
  IF k > Len(cs) THEN <<>>
  ELSE <<Line(IssueKey, cs[k].author), Line(IssueKey, cs[k].body), Line(IssueKey, "")>>
         \o commentLines(cs, k + 1)

\* printIssue / getComments up to the await of jira.findIssue
findIssueCall ==
  /\ action(cmd) \in {"printIssue", "printComments"} /\ pc = "start"
  /\ pc' = "finding"
  /\ findCalls' = findCalls + 1
  /\ calls' = Append(calls, Call("findIssue", arg))
  /\ UNCHANGED <<cmd, arg, issues, closeVars, out, returned, notes, searchCalls, sprintId, svVars, failed,
                 results>>

\* printIssue after jira.findIssue answered
printIssue ==
  /\ action(cmd) = "printIssue" /\ pc = "finding"
  /\ \E resp \in FindResponses :
       /\ out' = out \o (IF resp.kind = "fail" THEN handleError ELSE issueLines(resp))
       /\ failed' = (failed \/ resp.kind = "fail")
  /\ pc' = "done"
  /\ returned' = "undefined"
  /\ UNCHANGED <<cmd, arg, issues, closeVars, notes, searchCalls, findCalls, results, sprintId, svVars, calls>>

\* printComments after jira.findIssue answered (getComments included)
printComments ==
  /\ action(cmd) = "printComments" /\ pc = "finding"
  /\ \E resp \in FindResponses :
       /\ out' = out \o (IF resp.kind = "fail" THEN handleError
                         ELSE <<Line(IssueKey, Summary)>> \o commentLines(resp.comments, 1))
       /\ failed' = (failed \/ resp.kind = "fail")
  /\ pc' = "done"
  /\ returned' = "undefined"
  /\ UNCHANGED <<cmd, arg, issues, closeVars, notes, searchCalls, findCalls, results, sprintId, svVars, calls>>

(* ----------------------------- setVersion ----------------------------- *)
NoSprint == 0   \* no sprint, or a sprint without id
SprintPool == {5, 9, NoSprint}
SprintIds == {NoSprint, 5, 9}     \* values of the sprintId argument

\* a project version; rec = FALSE is a null entry of the list
Version(r, n, i) == [rec |-> r, name |-> n, id |-> i]
NoVersion == Version(FALSE, "", 0)
VersionPool == {Version(TRUE, "1.0rc", 1), Version(TRUE, "1.0rc", 2),
                Version(TRUE, "1.0RC", 3), NoVersion}

\* the issues a board can hold at position k: closed or open, with or
\* without a fix version, and one without fields
BoardIssuePool(k) ==
  {Issue(TRUE, k, TRUE, s, "Bug", n) : s \in {"Closed", "Open"}, n \in 0..1}
    \cup {Issue(TRUE, k, FALSE, NoStatus, NoIssueType, 0)}

SprintsResponses ==
  {[kind |-> "fail", values |-> <<>>]}
    \cup {[kind |-> "list", values |-> v] : v \in SeqsUpTo(SprintPool, MaxSprints)}

BoardResponses ==
  {[kind |-> "fail", issues |-> <<>>], [kind |-> "empty", issues |-> <<>>]}
    \cup {[kind |-> "list", issues |-> iss] : iss \in IssueLists([k \in 1..MaxIssues |-> BoardIssuePool(k)], MaxIssues)}

VersionsResponses ==
  {[kind |-> "fail", versions |-> <<>>], [kind |-> "null", versions |-> <<>>]}
    \cup {[kind |-> "list", versions |-> v] : v \in SeqsUpTo(VersionPool, MaxVersions)}

isIssueClosed(issue) ==
  issue.rec /\ issue.fields /\ issue.status # NoStatus /\ issue.status = "Closed"

doesIssueHaveFixVersion(issue) ==
  issue.rec /\ issue.fields /\ issue.fixVersions > 0

\* the loop with `v.name = version` for `v.name == version`: the first
\* entry that is not null
findVersionAssigning(vs, version) ==
  LET S == {k \in 1..Len(vs) : vs[k].rec}
  IN IF S = {} THEN NoVersion ELSE vs[Min(S)]

\* the loop without its `break`: the last entry named `version`
findVersionNoBreak(vs, version) ==
  LET S == {k \in 1..Len(vs) : vs[k].rec /\ vs[k].name = version}
  IN IF S = {} THEN NoVersion ELSE vs[CHOOSE k \in S : \A j \in S : j <= k]

\* the for loop over versions: the first entry named `version`
findVersion(vs, version) ==
  LET S == {k \in 1..Len(vs) : vs[k].rec /\ vs[k].name = version}
  IN IF S = {} THEN NoVersion ELSE vs[Min(S)]

\* the branch condition without its fix version half
needsUpdateUnlessClosed(issue) == ~isIssueClosed(issue)

\* the branch condition of the issue loop
needsUpdate(issue) == ~isIssueClosed(issue) /\ ~doesIssueHaveFixVersion(issue)

HeaderText == "Setting fix version to"
NoSprintText == "Active sprint not found"
NoVersionText == "Version not found"
SkipText == "already has a version or is closed"
UpdatedText == "updated"
\* the tally with updatedCount printed for both figures
TallyOfUpdated(u, n) == [key |-> u, text |-> "Updated issues out of", total |-> u]

\* the last line of setVersion: Updated {u} issues out of {n} total issues
Tally(u, n) == [key |-> u, text |-> "Updated issues out of", total |-> n]

\* issueLoop without its else branch: a skipped issue is not reported
RECURSIVE issueLoopNoElse(_, _, _)
issueLoopNoElse(iss, i, printed) ==
  IF i > Len(iss) \/ needsUpdate(iss[i]) THEN [idx |-> i, printed |-> printed]
  ELSE issueLoopNoElse(iss, i + 1, printed)

\* the issue loop from i to the next await (idx = the issue whose update
\* starts) or to its end (idx = Len + 1), with the lines printed on the way
RECURSIVE issueLoop(_, _, _)
issueLoop(iss, i, printed) ==
  IF i > Len(iss) \/ needsUpdate(iss[i]) THEN [idx |-> i, printed |-> printed]
  ELSE issueLoop(iss, i + 1, Append(printed, Line(iss[i].key, SkipText)))

\* setVersion(version, sprintId) up to the await of jira.getAllSprints
setVersionCall ==
  /\ action(cmd) = "setVersion" /\ pc = "start"
  /\ out' = Append(out, Line(NoKey, HeaderText))
  /\ pc' = "sprints"
  /\ calls' = Append(calls, Call("getAllSprints", "active"))
  /\ UNCHANGED <<cmd, arg, issues, closeVars, returned, notes, searchCalls, findCalls, results,
                 sprintId, svVars, failed>>

\* setVersionSprints with the TODO done: a sprintId that is passed in is
\* taken for the first active sprint
setVersionSprintsById ==
  /\ action(cmd) = "setVersion" /\ pc = "sprints"
  /\ \E resp \in SprintsResponses :
       LET first == IF sprintId # NoSprint THEN sprintId
                    ELSE IF Len(resp.values) = 0 THEN NoSprint ELSE resp.values[1]
       IN /\ failed' = (failed \/ resp.kind = "fail")
          /\ IF resp.kind = "fail"
               THEN pc' = "rejected" /\ UNCHANGED <<out, returned, activeSprint, calls, sprints>>
             ELSE IF first = NoSprint
               THEN /\ pc' = "done"
                    /\ returned' = "null"
                    /\ sprints' = resp.values
                    /\ out' = Append(out, Line(NoKey, NoSprintText))
                    /\ UNCHANGED <<activeSprint, calls>>
             ELSE /\ pc' = "board"
                  /\ sprints' = resp.values
                  /\ activeSprint' = first
                  /\ calls' = Append(calls, Call("getBoardIssuesForSprint", first))
                  /\ UNCHANGED <<out, returned>>
  /\ UNCHANGED <<cmd, arg, issues, closeVars, notes, searchCalls, findCalls, results, sprintId,
                 versions, versionObj, idx, updatedCount, issueCount, updates>>

\* the sprints answer: take the first, give up without one, else ask for
\* the issues of the board in that sprint
setVersionSprints ==
  /\ action(cmd) = "setVersion" /\ pc = "sprints"
  /\ \E resp \in SprintsResponses :
       LET first == IF Len(resp.values) = 0 THEN NoSprint ELSE resp.values[1]
       IN /\ failed' = (failed \/ resp.kind = "fail")
          /\ IF resp.kind = "fail"
               THEN pc' = "rejected" /\ UNCHANGED <<out, returned, activeSprint, calls, sprints>>
             ELSE IF first = NoSprint
               THEN /\ pc' = "done"
                    /\ returned' = "null"
                    /\ sprints' = resp.values
                    /\ out' = Append(out, Line(NoKey, NoSprintText))
                    /\ UNCHANGED <<activeSprint, calls>>
             ELSE /\ pc' = "board"
                  /\ sprints' = resp.values
                  /\ activeSprint' = first
                  /\ calls' = Append(calls, Call("getBoardIssuesForSprint", first))
                  /\ UNCHANGED <<out, returned>>
  /\ UNCHANGED <<cmd, arg, issues, closeVars, notes, searchCalls, findCalls, results, sprintId,
                 versions, versionObj, idx, updatedCount, issueCount, updates>>

\* the board issues answer: ask for the versions of the project
setVersionBoard ==
  /\ action(cmd) = "setVersion" /\ pc = "board"
  /\ \E resp \in BoardResponses :
       /\ failed' = (failed \/ resp.kind = "fail")
       /\ IF resp.kind = "fail"
            THEN pc' = "rejected" /\ UNCHANGED <<issues, calls>>
            ELSE /\ pc' = "versions"
                 /\ issues' = resp.issues
                 /\ calls' = Append(calls, Call("getVersions", "project"))
  /\ UNCHANGED <<cmd, arg, closeVars, out, returned, notes, searchCalls, findCalls, results,
                 sprintId, svVars>>

\* the lines and calls of the loop from position i on when
\* jira.updateIssue is not awaited
RECURSIVE loopUnawaited(_, _)
loopUnawaited(iss, i) ==
  IF i > Len(iss) THEN [printed |-> <<>>, started |-> <<>>]
  ELSE LET rest == loopUnawaited(iss, i + 1)
       IN IF needsUpdate(iss[i])
            THEN [printed |-> <<Line(iss[i].key, "updated")>> \o rest.printed,
                  started |-> <<iss[i].key>> \o rest.started]
            ELSE [printed |-> <<Line(iss[i].key, "already has a version or is closed")>>
                                \o rest.printed,
                  started |-> rest.started]

\* setVersionLoop without the `await` before jira.updateIssue: the loop
\* starts every update and prints the tally without waiting for any
setVersionLoopUnawaited(i, printed, count) ==
  LET l == loopUnawaited(issues, i)
      n == Len(l.started)
  IN /\ idx' = Len(issues) + 1
     /\ pc' = "done"
     /\ returned' = "undefined"
     /\ out' = out \o printed \o l.printed
                 \o <<[key |-> count + n, text |-> "Updated issues out of",
                       total |-> issueCount']>>
     /\ updates' = updates \o [k \in 1..n |-> [id |-> l.started[k],
                                                fixVersions |-> <<versionObj'>>]]
     /\ calls' = calls \o [k \in 1..n |-> Call("updateIssue", l.started[k])]

\* the loop runs on from position i: start the next update or print the tally
setVersionLoop(i, printed, count) ==
  LET l == issueLoop(issues, i, printed)
  IN /\ idx' = l.idx
     /\ IF l.idx > Len(issues)
          THEN /\ pc' = "done"
               /\ returned' = "undefined"
               /\ out' = out \o l.printed \o <<Tally(count, issueCount')>>
               /\ UNCHANGED <<updates, calls>>
          ELSE /\ pc' = "updating"
               /\ out' = out \o l.printed
               /\ calls' = Append(calls, Call("updateIssue", issues[l.idx].key))
               /\ updates' = Append(updates, [id |-> issues[l.idx].key,
                                              fixVersions |-> <<versionObj'>>])
               /\ UNCHANGED returned

\* the versions answer: resolve the version, give up without it, else
\* enter the issue loop
setVersionVersions ==
  /\ action(cmd) = "setVersion" /\ pc = "versions"
  /\ \E resp \in VersionsResponses :
       LET v == findVersion(resp.versions, arg)
       IN /\ failed' = (failed \/ resp.kind = "fail")
          /\ IF resp.kind = "fail"
               THEN /\ pc' = "rejected"
                    /\ UNCHANGED <<out, returned, versionObj, idx, updatedCount, issueCount,
                                   updates, calls, versions>>
             ELSE IF ~v.rec
               THEN /\ pc' = "done"
                    /\ returned' = "null"
                    /\ versions' = resp.versions
                    /\ out' = Append(out, Line(NoKey, NoVersionText))
                    /\ UNCHANGED <<versionObj, idx, updatedCount, issueCount, updates, calls>>
             ELSE /\ versionObj' = v
                  /\ versions' = resp.versions
                  /\ issueCount' = Len(issues)
                  /\ updatedCount' = 0
                  /\ setVersionLoop(1, <<>>, 0)
  /\ UNCHANGED <<cmd, arg, issues, closeVars, notes, searchCalls, findCalls, results, sprintId,
                 activeSprint, sprints>>

\* jira.updateIssue answers: report the issue, count it, go on with the loop
setVersionUpdated ==
  /\ action(cmd) = "setVersion" /\ pc = "updating"
  /\ \E ok \in BOOLEAN :
       /\ failed' = (failed \/ ~ok)
       /\ IF ok
            THEN /\ updatedCount' = updatedCount + 1
                 /\ UNCHANGED <<versionObj, issueCount>>
                 /\ setVersionLoop(idx + 1, <<Line(issues[idx].key, UpdatedText)>>,
                                   updatedCount + 1)
            ELSE /\ pc' = "rejected"
                 /\ UNCHANGED <<out, returned, versionObj, idx, updatedCount, issueCount,
                                updates, calls>>
  /\ UNCHANGED <<cmd, arg, issues, closeVars, notes, searchCalls, findCalls, results, sprintId,
                 activeSprint, sprints, versions>>

(* ------------------------------ system -------------------------------- *)
Args == {"", "1.0"}

Init ==
  /\ cmd \in Commands
  /\ arg \in (IF cmd \in {"issue", "comments"} THEN {"1"}
              ELSE IF cmd = "setVersion" THEN {"", "1.0rc"} ELSE Args)
  /\ sprintId \in (IF cmd = "setVersion" THEN SprintIds ELSE {NoSprint})
  /\ pc = "start"
  /\ issues = <<>>
  /\ chains = <<>>
  /\ completed = <<>>
  /\ out = <<>>
  /\ returned = "none"
  /\ notes = NoNotes
  /\ searchCalls = 0
  /\ findCalls = 0
  /\ activeSprint = NoSprint
  /\ versionObj = NoVersion
  /\ idx = 0
  /\ updatedCount = 0
  /\ issueCount = 0
  /\ updates = <<>>
  /\ failed = FALSE
  /\ calls = <<>>
  /\ sprints = <<>>
  /\ versions = <<>>
  /\ results = [kind |-> "none", issues |-> <<>>]

Next ==
  \/ searchCall
  \/ searchReturn
  \/ generateReleaseNotesCall
  \/ generateReleaseNotesSearched
  \/ closeIssuesCall
  \/ closeIssuesSearched
  \/ \E k \in 1..MaxIssues + 1 : listTransitionsReturn(k)
  \/ \E k \in 1..MaxIssues + 1 : transitionIssueReturn(k)
  \/ findIssueCall
  \/ printIssue
  \/ printComments
  \/ setVersionCall
  \/ setVersionSprints
  \/ setVersionBoard
  \/ setVersionVersions
  \/ setVersionUpdated

Spec == Init /\ [][Next]_vars

(* ============================ properties ============================== *)
\* positions of the issue list of a close run
Chains == 1..Len(chains)
\* the line closeIssues printed for issue k (after the lines of the search)
ResultLine(k) == out[Len(issues) + k]
\* closeIssue returned without a line for this issue
Skipped(i) == ~i.rec \/ i.key = NoKey \/ ~i.fields \/ i.status = NoStatus
AllSettled == \A k \in Chains : Settled(chains[k])
Inverted(order) ==
  \E a, b \in 1..Len(order) : a < b /\ order[a] > order[b]

\* C1 (as claimed): when one issue's chain has failed and every chain has run
\* to its end, the result line of every other issue has been printed.
C1_SiblingLinesPrinted ==
  (cmd = "close" /\ AllSettled /\ \E k \in Chains : chains[k].st = "rejected")
    => \A k \in Chains :
         (chains[k].st = "fulfilled" /\ ~Skipped(issues[k]))
           => \E l \in 1..Len(out) : out[l] = chains[k].res

\* C2 (as claimed): whatever tracker call of a command has failed, the
\* promise of its handler does not reject.
C2_FailureSwallowed == failed => pc # "rejected"

\* C3: once closeIssues has printed, the result lines follow the search
\* lines in the order of the issues: line k is the result of issue k and
\* carries its key, whatever the order in which the chains settled.
C3_OriginalOrder ==
  (cmd = "close" /\ pc = "done")
    => /\ Len(out) = 2 * Len(issues)
       /\ \A k \in Chains :
            /\ ResultLine(k) = chains[k].res
            /\ ResultLine(k).text # UndefinedText => ResultLine(k).key = issues[k].key

C3_Witness ==
  cmd = "close" /\ pc = "done" /\ Inverted(completed)
    /\ \A k \in Chains : ResultLine(k).key = issues[k].key

\* C4: for an issue with status Closed no listTransitions and no
\* transitionIssue call is ever made, its chain yields the "already Closed"
\* line at once, and that is the line printed for it; a run on issues that
\* are all Closed ends with these lines printed and no call but the search.
C4_ClosedUntouched ==
  cmd = "close" =>
    /\ \A k \in Chains : issues[k].status = "Closed" =>
         /\ chains[k].applyCalls = 0 /\ chains[k].listCalls = 0
         /\ chains[k].st = "fulfilled"
         /\ chains[k].res = Line(issues[k].key, AlreadyClosed)
         /\ pc = "done" => ResultLine(k) = Line(issues[k].key, AlreadyClosed)
    /\ (Chains # {} /\ \A k \in Chains : issues[k].status = "Closed") => pc = "done"

C4_Witness ==
  /\ cmd = "close" /\ pc = "done" /\ Len(issues) >= 2
  /\ \E k \in Chains : issues[k].status = "Closed"
                         /\ ResultLine(k) = Line(issues[k].key, AlreadyClosed)
  /\ \E k \in Chains : chains[k].applyCalls = 1

\* C5: for an issue whose status is neither Resolved nor Closed no
\* listTransitions and no transitionIssue call is ever made, its chain yields
\* the "not Resolved yet" line, and that is the line printed for it.
C5_UnresolvedUntouched ==
  cmd = "close" =>
    \A k \in Chains :
      (~Skipped(issues[k]) /\ issues[k].status \notin {"Resolved", "Closed"}) =>
        /\ chains[k].applyCalls = 0 /\ chains[k].listCalls = 0
        /\ chains[k].st = "fulfilled"
        /\ chains[k].res = Line(issues[k].key, NotResolved)
        /\ pc = "done" => ResultLine(k) = Line(issues[k].key, NotResolved)

C5_Witness ==
  /\ cmd = "close" /\ pc = "done" /\ Len(issues) >= 2
  /\ \E k \in Chains : issues[k].status = "Open"
                         /\ ResultLine(k) = Line(issues[k].key, NotResolved)
  /\ \E k \in Chains : chains[k].applyCalls = 1

\* the transition lists of the two C6 statements
HasValidClose(ts) == \E j \in 1..Len(ts) : ts[j].name = "Close Issue" /\ ts[j].id # NoId
FirstCloseValid(ts) ==
  \E j \in 1..Len(ts) :
    /\ ts[j].name = "Close Issue" /\ ts[j].id # NoId
    /\ \A h \in 1..(j - 1) : ts[h].name # "Close Issue"
FirstCloseId(ts) ==
  ts[CHOOSE j \in 1..Len(ts) :
       ts[j].name = "Close Issue" /\ \A h \in 1..(j - 1) : ts[h].name # "Close Issue"].id

\* the outcome C6 describes for chain k: one transitionIssue call, started
\* when listTransitions had answered, and the "Closed" line exactly when that
\* call has completed
AppliedOnce(k) ==
  /\ chains[k].applyCalls = 1
  /\ chains[k].st \in {"applying", "fulfilled", "rejected"}
  /\ chains[k].st = "fulfilled" <=> chains[k].res = Line(issues[k].key, Closed)
  /\ pc = "done" => ResultLine(k) = Line(issues[k].key, Closed)

\* C6 (as claimed): a Resolved issue whose transitions include one named
\* "Close Issue" with a valid id gets exactly one transitionIssue call and
\* the "Closed" line.
C6_AnyValidCloseApplied ==
  cmd = "close" =>
    \A k \in Chains :
      (issues[k].status = "Resolved" /\ chains[k].transitions.kind = "list"
         /\ HasValidClose(chains[k].transitions.transitions))
        => AppliedOnce(k)

\* C6 (amended): a Resolved issue whose FIRST transition named "Close Issue"
\* has a valid id gets exactly one transitionIssue call, with that id and
\* after listTransitions answered, and the "Closed" line exactly when that
\* call has completed; no chain calls transitionIssue before its
\* listTransitions call has answered, nor more than once.
C6_FirstCloseApplied ==
  cmd = "close" =>
    \A k \in Chains :
      /\ (issues[k].status = "Resolved" /\ chains[k].transitions.kind = "list"
            /\ FirstCloseValid(chains[k].transitions.transitions))
           => /\ AppliedOnce(k)
              /\ chains[k].applyId = FirstCloseId(chains[k].transitions.transitions)
      /\ chains[k].applyCalls <= 1
      /\ chains[k].applyCalls = 1 => chains[k].transitions.kind = "list"
      /\ chains[k].st = "listing" => chains[k].applyCalls = 0

C6_Witness ==
  /\ cmd = "close" /\ pc = "done"
  /\ \E k \in Chains :
       /\ Len(chains[k].transitions.transitions) = 2
       /\ FirstCloseValid(chains[k].transitions.transitions)
       /\ chains[k].applyCalls = 1
       /\ ResultLine(k) = Line(issues[k].key, Closed)

\* C7: a Resolved issue whose transitions hold no "Close Issue" entry, or
\* only such entries without a valid id, gets no transitionIssue call and
\* the "Close Transition not available" line; its chain is fulfilled, so the
\* join goes on: once every chain is fulfilled the lines are printed.
C7_NoCloseTransition ==
  cmd = "close" =>
    /\ \A k \in Chains :
         (issues[k].status = "Resolved" /\ chains[k].transitions.kind \in {"null", "list"}
            /\ ~HasValidClose(chains[k].transitions.transitions))
           => /\ chains[k].applyCalls = 0
              /\ chains[k].st = "fulfilled"
              /\ chains[k].res = Line(issues[k].key, NotAvailable)
              /\ pc = "done" => ResultLine(k) = Line(issues[k].key, NotAvailable)
    /\ (Chains # {} /\ \A k \in Chains : chains[k].st = "fulfilled") => pc = "done"

C7_Witness ==
  /\ cmd = "close" /\ pc = "done"
  /\ \E k \in Chains :
       /\ chains[k].transitions.kind = "list"
       /\ \E j \in 1..Len(chains[k].transitions.transitions) :
            chains[k].transitions.transitions[j] = Transition("Close Issue", NoId)
       /\ ResultLine(k) = Line(issues[k].key, NotAvailable)
  /\ \E k \in Chains : ResultLine(k) = Line(issues[k].key, Closed)

\* C8 (as claimed): an issue without record or status gets no tracker call
\* and no printed line: closeIssues prints one line per issue that is not
\* skipped.
C8_SilentSkip ==
  (cmd = "close" /\ pc = "done")
    => /\ \A k \in Chains : Skipped(issues[k]) =>
            chains[k].listCalls = 0 /\ chains[k].applyCalls = 0
       /\ Len(out) - Len(issues) = Cardinality({k \in Chains : ~Skipped(issues[k])})

\* the categories of a notes object
Categories == {"newFeatures", "improved", "fixes", "other"}
Label(c) ==
  CASE c = "newFeatures" -> "New Feature" [] c = "improved" -> "Improvement"
    [] c = "fixes" -> "Bug" [] OTHER -> "Other"
\* the places at which the issue with this key stands in the notes
Places(key) ==
  {<<c, j>> \in Categories \X (1..MaxIssues + 1) : j <= Len(notes[c]) /\ notes[c][j].id = key}

C10_OtherCatchesAll ==
  (cmd = "notes" /\ pc \in {"done", "rejected"} /\ Len(issues) > 0)
    => /\ \A c \in Categories \ {"other"} :
            \A j \in 1..Len(notes[c]) : notes[c][j].type = Label(c)
       /\ \A k \in 1..Len(issues) :
            issues[k].type \notin {"New Feature", "Improvement", "Bug"}
              => \E j \in 1..Len(notes.other) : notes.other[j].id = issues[k].key

\* C11: when the query of generateReleaseNotes has failed, or has yielded no
\* issue, the handler has returned null: it is not rejected and it has built
\* no notes object.
C11_NullOnFailureOrEmpty ==
  (cmd = "notes" /\ pc \notin {"start", "searching"} /\ (failed \/ Len(issues) = 0))
    => pc = "done" /\ returned = "null" /\ notes = NoNotes

C11_Witness ==
  cmd = "notes" /\ failed /\ pc = "done" /\ returned = "null" /\ Len(calls) = 1

\* positions of the sprint issue list of a setVersion run
SprintIssues == 1..Len(issues)
\* the issue loop of setVersion has been entered
InLoop == cmd = "setVersion" /\ versionObj.rec
\* the loop is through with issue k
Processed(k) == InLoop /\ k < idx
ClosedOrVersioned(i) == i.status = "Closed" \/ i.fixVersions > 0
\* the jira.updateIssue calls started for the issue with this key
UpdatesOf(key) == {u \in 1..Len(updates) : updates[u].id = key}
Printed(line) == \E l \in 1..Len(out) : out[l] = line

\* C12: no jira.updateIssue call is ever started for a sprint issue that is
\* Closed or has a fix version, and once the loop is through with such an
\* issue its "already has a version or is closed" line is printed.
C12_SkippedNeverUpdated ==
  cmd = "setVersion" =>
    \A k \in SprintIssues :
      ClosedOrVersioned(issues[k]) =>
        /\ UpdatesOf(issues[k].key) = {}
        /\ \A c \in 1..Len(calls) :
             calls[c].name = "updateIssue" => calls[c].arg # issues[k].key
        /\ Processed(k) => /\ Printed(Line(issues[k].key, SkipText))
                           /\ ~Printed(Line(issues[k].key, UpdatedText))

C12_Witness ==
  /\ cmd = "setVersion" /\ pc = "done" /\ Len(updates) = 1 /\ Len(issues) = 3
  /\ \E k \in SprintIssues : issues[k].status = "Closed" /\ issues[k].fixVersions = 0
  /\ \E k \in SprintIssues : issues[k].status = "Open" /\ issues[k].fixVersions > 0

IsTally(line) == line.text = "Updated issues out of"
\* the number of jira.updateIssue calls started so far
UpdateCalls == Cardinality({c \in 1..Len(calls) : calls[c].name = "updateIssue"})

\* C13: a tally line is the last line printed; its "out of" figure is the
\* number of issues of the sprint and its first figure is updatedCount and
\* the number of jira.updateIssue calls made; in the loop updatedCount never
\* exceeds the number of issues the loop is through with.
C13_Tally ==
  cmd = "setVersion" =>
    /\ \A l \in 1..Len(out) :
         IsTally(out[l]) =>
           /\ l = Len(out) /\ pc = "done"
           /\ out[l].total = Len(issues) /\ out[l].total = issueCount
           /\ out[l].key = updatedCount
           /\ out[l].key = UpdateCalls /\ out[l].key = Len(updates)
    /\ InLoop => updatedCount <= idx - 1 /\ idx - 1 <= Len(issues)

C13_Witness ==
  /\ cmd = "setVersion" /\ pc = "done" /\ IsTally(out[Len(out)])
  /\ out[Len(out)].key = 2 /\ out[Len(out)].total = 3

\* jira.getAllSprints has answered; jira.getVersions has answered
SprintsFetched ==
  cmd = "setVersion" /\ pc \notin {"start", "sprints"} /\ ~(pc = "rejected" /\ Len(calls) = 1)
VersionsFetched ==
  cmd = "setVersion" /\ Len(calls) >= 3 /\ pc # "versions"
    /\ ~(pc = "rejected" /\ Len(calls) = 3)
NoActiveSprint == Len(sprints) = 0 \/ sprints[1] = NoSprint
NoVersionNamed(name) == \A j \in 1..Len(versions) : ~(versions[j].rec /\ versions[j].name = name)
TallyPrinted == \E l \in 1..Len(out) : IsTally(out[l])

\* C14: exactly when the sprint lookup has answered without a first sprint
\* that has an id, "Active sprint not found" is printed, and then the
\* handler has returned null with getAllSprints its only call; exactly when
\* the version lookup has answered without a version named as the target,
\* "Version not found" is printed, and then the handler has returned null
\* with no updateIssue call and no tally.
C14_LookupNotFound ==
  cmd = "setVersion" =>
    /\ Printed(Line(NoKey, NoSprintText)) <=> (SprintsFetched /\ NoActiveSprint)
    /\ Printed(Line(NoKey, NoSprintText)) =>
         /\ pc = "done" /\ returned = "null"
         /\ Len(calls) = 1 /\ calls[1].name = "getAllSprints"
         /\ updates = <<>> /\ ~TallyPrinted
    /\ Printed(Line(NoKey, NoVersionText)) <=> (VersionsFetched /\ NoVersionNamed(arg))
    /\ Printed(Line(NoKey, NoVersionText)) =>
         /\ pc = "done" /\ returned = "null"
         /\ Len(calls) = 3 /\ UpdateCalls = 0
         /\ updates = <<>> /\ ~TallyPrinted

C14_Witness ==
  /\ cmd = "setVersion" /\ Printed(Line(NoKey, NoVersionText))
  /\ arg = "1.0rc" /\ Len(versions) = 2 /\ versions[1] = Version(TRUE, "1.0RC", 3)
  /\ \E k \in SprintIssues : ~ClosedOrVersioned(issues[k])

\* the position of the sprint issue with this key
PosOf(key) == CHOOSE k \in SprintIssues : issues[k].key = key
IsReport(line) == line.text \in {UpdatedText, SkipText}
Reports == SelectSeq(out, IsReport)
\* jira.updateIssue calls started and not yet answered
UpdatesInFlight == IF pc = "updating" THEN 1 ELSE 0
UpdatesAnswered == updatedCount + (IF pc = "rejected" /\ Len(calls) > 3 THEN 1 ELSE 0)

\* the state half of C15: every update call started is answered or is the
\* one call in flight, the calls were started in the order of the sprint
\* issues, and so were the report lines printed
SequentialState ==
  cmd = "setVersion" =>
    /\ Len(updates) = UpdatesAnswered + UpdatesInFlight
    /\ \A a, b \in 1..Len(updates) : a < b => PosOf(updates[a].id) < PosOf(updates[b].id)
    /\ \A a, b \in 1..Len(Reports) : a < b => PosOf(Reports[a].key) < PosOf(Reports[b].key)
    /\ InLoop => Len(Reports) = idx - 1

\* the step half of C15: a step starts at most one update call, and only
\* when no call is in flight or the step is the answer to the call in flight
SequentialStep ==
  (cmd = "setVersion" /\ Len(updates') # Len(updates)) =>
    /\ Len(updates') = Len(updates) + 1
    /\ pc' = "updating"
    /\ \/ pc = "versions" /\ Len(updates) = 0
       \/ pc = "updating" /\ updatedCount' = updatedCount + 1
    /\ PosOf(updates'[Len(updates')].id) = idx'
    /\ Len(updates) > 0 => idx' > idx

\* C15: setVersion works through the sprint issues one after the other: at
\* most one jira.updateIssue call is in flight, the next one is started only
\* by the step that receives the answer to the one before, and the reports
\* are printed in the order of the sprint issues.
C15_Sequential == [](SequentialState) /\ [][SequentialStep]_vars

C15_Witness ==
  /\ cmd = "setVersion" /\ pc = "updating" /\ Len(updates) = 2 /\ updatedCount = 1
  /\ Len(Reports) = 2 /\ Reports[1].text = SkipText

ErrorLines == SelectSeq(out, LAMBDA l : l.text = ErrorText)

\* C16: search never rejects.  With an empty query it returns [] and makes
\* no tracker call.  With another query it makes one searchJira call; the
\* issues the tracker answered are returned as they came, in their order,
\* after one line for each; an answer without issues gives []; a rejected
\* call gives undefined after exactly one error message (and so does an
\* answer with an entry that has no fields, after the lines before it).
C16_Search ==
  cmd = "search" =>
    /\ pc # "rejected"
    /\ pc = "done" =>
         /\ arg = "" => returned = "array" /\ issues = <<>> /\ calls = <<>> /\ out = <<>>
         /\ arg # "" =>
              /\ Len(calls) = 1 /\ calls[1] = Call("searchJira", arg)
              /\ (results.kind = "list" /\ Unprintable(results.issues) = {}) =>
                   /\ returned = "array" /\ issues = results.issues
                   /\ Len(out) = Len(issues)
                   /\ \A k \in 1..Len(issues) : out[k] = Line(results.issues[k].key, Summary)
              /\ results.kind = "empty" =>
                   returned = "array" /\ issues = <<>> /\ out = <<>>
              /\ results.kind = "fail" =>
                   returned = "undefined" /\ issues = <<>> /\ out = handleError
              /\ (results.kind = "list" /\ Unprintable(results.issues) # {}) =>
                   /\ returned = "undefined" /\ issues = <<>>
                   /\ Len(ErrorLines) = 1 /\ out[Len(out)].text = ErrorText

C16_Witness ==
  /\ cmd = "search" /\ pc = "done" /\ returned = "array"
  /\ Len(issues) = 3 /\ issues = results.issues /\ Len(out) = 3

\* the category whose label is this type, other if there is none
CategoryOf(type) ==
  IF \E c \in Categories \ {"other"} : Label(c) = type
    THEN CHOOSE c \in Categories \ {"other"} : Label(c) = type
    ELSE "other"
\* the input issues of category c, in the order of the query result
IssuesOf(c) == SelectSeq(issues, LAMBDA i : CategoryOf(i.type) = c)

\* C17: in a notes object every category holds one record for each input
\* issue of that category, in the order of these issues in the query
\* result, and the id of each record is the key of its issue.
C17_OrderPreserved ==
  (cmd = "notes" /\ returned = "object") =>
    \A c \in Categories :
      /\ Len(notes[c]) = Len(IssuesOf(c))
      /\ \A j \in 1..Len(notes[c]) :
           notes[c][j].id = IssuesOf(c)[j].key /\ notes[c][j].type = IssuesOf(c)[j].type

C17_Witness ==
  /\ cmd = "notes" /\ returned = "object" /\ Len(issues) = 3
  /\ Len(notes.other) = 2 /\ notes.other[1].id = 1 /\ notes.other[2].id = 3
  /\ Len(notes.fixes) = 1

\* entry j of the version list is a version named exactly as the target
NamedAsTarget(j) == versions[j].rec /\ versions[j].name = arg

\* C18: in the issue loop the resolved version is the first entry of the
\* fetched version list whose name equals the target, and every
\* jira.updateIssue call started sets fixVersions to the list holding just
\* that version.
C18_FirstMatchAssigned ==
  InLoop =>
    /\ \E j \in 1..Len(versions) :
         /\ NamedAsTarget(j) /\ versionObj = versions[j]
         /\ \A h \in 1..(j - 1) : ~NamedAsTarget(h)
    /\ \A u \in 1..Len(updates) : updates[u].fixVersions = <<versionObj>>

C18_Witness ==
  /\ cmd = "setVersion" /\ pc = "done" /\ Len(updates) = 2
  /\ versions = <<Version(TRUE, "1.0rc", 2), Version(TRUE, "1.0rc", 1)>>
  /\ versionObj.id = 2
  /\ \A u \in 1..Len(updates) : updates[u].fixVersions[1].id = 2

\* the sprint issues that get an update call, in the order of the list
ToUpdate == SelectSeq(issues, LAMBDA i : ~ClosedOrVersioned(i))
\* the tracker calls of a whole setVersion run, from the target and the
\* tracker's answers alone
FullCalls ==
  <<Call("getAllSprints", "active")>>
    \o (IF NoActiveSprint THEN <<>>
        ELSE <<Call("getBoardIssuesForSprint", sprints[1]), Call("getVersions", "project")>>
               \o (IF NoVersionNamed(arg) THEN <<>>
                   ELSE [k \in 1..Len(ToUpdate) |-> Call("updateIssue", ToUpdate[k].key)]))
\* the lines of a whole setVersion run, from the target and the tracker's
\* answers alone
FullOut ==
  <<Line(NoKey, HeaderText)>>
    \o (IF NoActiveSprint THEN <<Line(NoKey, NoSprintText)>>
        ELSE IF NoVersionNamed(arg) THEN <<Line(NoKey, NoVersionText)>>
        ELSE [k \in 1..Len(issues) |->
                Line(issues[k].key,
                     IF ClosedOrVersioned(issues[k]) THEN SkipText ELSE UpdatedText)]
               \o <<Tally(Len(ToUpdate), Len(issues))>>)
SameCall(a, b) == a.name = b.name /\ a.arg = b.arg

\* C19: the calls made and the lines printed by setVersion are at every
\* moment a beginning of the calls and lines that the target and the
\* tracker's answers fix, and all of them when the run ends without a
\* failed call; sprintId has no part in them, so two runs that differ in
\* sprintId alone make the same calls and print the same lines.  The
\* sprint whose issues are fetched is the first active sprint.
C19_SprintIdIgnored ==
  (cmd = "setVersion" /\ pc # "start") =>
    /\ Len(calls) <= Len(FullCalls)
    /\ \A c \in 1..Len(calls) : SameCall(calls[c], FullCalls[c])
    /\ Len(out) <= Len(FullOut)
    /\ \A l \in 1..Len(out) : out[l] = FullOut[l]
    /\ (pc = "done" /\ ~failed) => Len(calls) = Len(FullCalls) /\ Len(out) = Len(FullOut)
    /\ Len(calls) >= 2 => activeSprint = sprints[1] /\ calls[2].arg = sprints[1]

C19_Witness ==
  /\ cmd = "setVersion" /\ pc = "done" /\ sprintId = 9
  /\ sprints = <<5, 9>> /\ activeSprint = 5
  /\ calls[2].name = "getBoardIssuesForSprint" /\ calls[2].arg = 5
  /\ Len(updates) = 1 /\ TallyPrinted

\* jira.transitionIssue calls started so far
ApplyCalls == {k \in 1..Len(chains) : chains[k].applyCalls > 0}
CallNames == {calls[c].name : c \in 1..Len(calls)}

\* C20: search, issue, comments and notes start no jira.transitionIssue and
\* no jira.updateIssue call and no close chain at all, whether their one
\* read succeeds or fails; close starts no jira.updateIssue call and
\* setVersion no jira.transitionIssue call.
C20_ReadOnly ==
  /\ cmd \in {"search", "issue", "comments", "notes"} =>
       /\ ApplyCalls = {} /\ chains = <<>>
       /\ updates = <<>> /\ UpdateCalls = 0
       /\ CallNames \subseteq {"searchJira", "findIssue"}
       /\ Len(calls) <= 1
  /\ cmd = "close" => updates = <<>> /\ CallNames \subseteq {"searchJira"}
  /\ cmd = "setVersion" =>
       /\ ApplyCalls = {} /\ chains = <<>>
       /\ CallNames \subseteq {"getAllSprints", "getBoardIssuesForSprint", "getVersions",
                               "updateIssue"}

C20_Witness ==
  /\ cmd = "notes" /\ pc = "done" /\ returned = "object" /\ Len(calls) = 1
  /\ \E k \in 1..Len(issues) : issues[k].status = "Resolved"
  /\ ApplyCalls = {} /\ updates = <<>>

\* the report lines printed for the sprint issue at position k
ReportsOf(k) == {l \in 1..Len(out) : IsReport(out[l]) /\ out[l].key = issues[k].key}
SuccessLines == {l \in 1..Len(out) : out[l].text = UpdatedText}
SkipLines == {l \in 1..Len(out) : out[l].text = SkipText}

\* C21: in the issue loop the success lines are as many as updatedCount
\* and no issue has more than one report line; when the run ends with no
\* failed call every sprint issue has exactly one report line, the success
\* line or the "already has a version or is closed" line, and success
\* lines plus skip lines are issueCount.
C21_OneReportEach ==
  InLoop =>
    /\ Cardinality(SuccessLines) = updatedCount
    /\ \A k \in SprintIssues : Cardinality(ReportsOf(k)) <= 1
    /\ (pc = "done" /\ ~failed) =>
         /\ \A k \in SprintIssues :
              /\ Cardinality(ReportsOf(k)) = 1
              /\ \A l \in ReportsOf(k) :
                   out[l].text = (IF ClosedOrVersioned(issues[k]) THEN SkipText
                                  ELSE UpdatedText)
         /\ Cardinality(SuccessLines) + Cardinality(SkipLines) = issueCount
         /\ issueCount = Len(issues)

C21_Witness ==
  /\ InLoop /\ pc = "done" /\ ~failed /\ issueCount = 3
  /\ updatedCount = 2 /\ Cardinality(SuccessLines) = 2 /\ Cardinality(SkipLines) = 1
  /\ ClosedOrVersioned(issues[2])
====
